---- MODULE Spec2Model ----
(***************************************************************************)
(* Model of reth's network state coordinator                               *)
(* (crates/net/network/src/state.rs, NetworkState) and of the body         *)
(* download queue (crates/net/downloaders/src/bodies/queue.rs,             *)
(* BodiesRequestQueue).                                                    *)
(*                                                                         *)
(* Peer ids, block hashes, block numbers and request ids are small         *)
(* naturals.  Hash 0 is the default (zero) hash of Status::default().  A   *)
(* block announced with hash h has header number h.  A HashMap iteration   *)
(* is a nondeterministic choice of one enumeration order of its keys.      *)
(* GetBlockHeaders and GetBlockBodies requests take the same path through  *)
(* the coordinator and are not told apart.                                 *)
(*                                                                         *)
(* StateFetcher, LruCache, Discovery, PeersManager and BodiesRequestFuture *)
(* are defined in other modules of the repository; they are modelled from  *)
(* their documented contract.                                              *)
(***************************************************************************)
EXTENDS Integers, Sequences, FiniteSets, TLC

\* ------------------------------------------------------------------ bounds
MaxPeers == 3
MaxHash == 1
MaxQueued == 3
MaxFetchPeers == 2
MaxRequests == 2
MaxPushes == 3
MaxBlock == 3
MaxHeaders == 2
CacheExtra == 3
MaxReinserts == 2
MaxEvents == 2

\* ------------------------------------------------------- program constants
PEER_BLOCK_CACHE_LIMIT == 512
\* mpsc::channel(1): the capacity of a session's request channel
SessionChannelCap == 1

PeerIds == 1..MaxPeers
Hashes == 1..MaxHash
ZeroHash == 0
None == [none |-> TRUE]
Some(x) == [some |-> x]

VARIABLES
    active_peers,       \* NetworkState::active_peers : PeerId -> ActivePeer
    queued_messages,    \* NetworkState::queued_messages : VecDeque<StateAction>
    fetch_peers,        \* StateFetcher: registered peers,
                        \*   PeerId -> [best_number, inflight, closing]
    fetch_queued,       \* StateFetcher: client requests not yet dispatched
    requests,           \* every client request: the state of the response
                        \*   channel made for it and what its caller observed
    session_rx,         \* per peer, the session's end of the request channel
    penalized,          \* PeersManager: peers a reputation change was applied to
    discovery,          \* Discovery: [ready: events to yield, banned]
    peer_actions,       \* PeersManager: the actions its poll will yield
    eth_responses,      \* history: the <<peer, request>> pairs whose response
                        \*   was handed to on_eth_response
    pc,                 \* where the task owning the NetworkState is: "out"
                        \*   of poll, or inside poll in the loop over
                        \*   state_fetcher.poll ("fetcher")
    poll_result,        \* what poll returned, in the state it returned to
    woken,              \* the task owning the NetworkState is scheduled to poll
    build,              \* "debug" (debug assertions on) or "release"
    panicked,           \* a debug assertion failed: the process has aborted
    inner,              \* BodiesRequestQueue::inner, a FuturesUnordered:
                        \*   [futures: the requests it holds, as pushed,
                        \*    ready: those that completed, as completed]
    last_requested_block_number,  \* BodiesRequestQueue's high-water mark
    next_request,       \* the number of push_new_request calls so far
    stream_item,        \* what the last poll_next returned
    informed,           \* history: (peer, hash) pairs announced to or reported
                        \*   by the peer since it connected
    last_call,          \* history: the call that produced this state
    pushed_max,         \* history: highest block number pushed since clear
    pushed_sorted,      \* history: every list pushed since clear was sorted
    pushed_last,        \* history: the list of the last push since clear
    live,               \* history: ids pushed and neither yielded nor cleared
    cleared             \* history: ids dropped by a clear

fetchSide == <<fetch_queued, requests, session_rx, penalized, discovery,
               peer_actions, eth_responses>>

queueSide == <<inner, last_requested_block_number, next_request, stream_item,
               pushed_max, pushed_sorted, pushed_last, live, cleared>>

netSide == <<active_peers, queued_messages, fetch_peers, fetchSide, woken,
             build, pc, poll_result, panicked, informed, last_call>>

vars == <<netSide, queueSide>>

\* ----------------------------------------------------------------- helpers
Range(s) == {s[i] : i \in 1..Len(s)}

Perms(S) == {s \in [1..Cardinality(S) -> S] : Range(s) = S}

\* (n as f64).sqrt() as u64 : the integer part of the square root
FloorSqrt(n) == CHOOSE r \in 0..n : r * r <= n /\ (r + 1) * (r + 1) > n

\* A function f without the key k
Remove(f, k) == [x \in (DOMAIN f) \ {k} |-> f[x]]

\* A function f with key k set to v (added when absent)
Insert(f, k, v) == [x \in (DOMAIN f) \cup {k} |-> IF x = k THEN v ELSE f[x]]

EmptyMap == [x \in {} |-> None]

\* ------------------------------------------------------------ LruCache<H256>
\* A cache is [limit, items]: items holds the hashes, least recently inserted
\* first.
LruNew(limit) == [limit |-> limit, items |-> <<>>]

LruContains(cache, h) == h \in Range(cache.items)

LruLen(cache) == Len(cache.items)

SeqWithout(s, h) == SelectSeq(s, LAMBDA x : x # h)

\* insert: a present hash becomes the most recently inserted one; a new hash
\* evicts the least recently inserted one when the cache is full
LruInsert(cache, h) ==
    IF LruContains(cache, h)
    THEN [cache EXCEPT !.items = Append(SeqWithout(cache.items, h), h)]
    ELSE IF Len(cache.items) >= cache.limit
         THEN [cache EXCEPT !.items = Append(Tail(cache.items), h)]
         ELSE [cache EXCEPT !.items = Append(cache.items, h)]

\* extend: insert every hash of the sequence, in order
RECURSIVE LruExtend(_, _)
LruExtend(cache, hs) ==
    IF hs = <<>> THEN cache
    ELSE LruExtend(LruInsert(cache, Head(hs)), Tail(hs))

\* ------------------------------------------------------------- StateFetcher
\* inflight is the id of the request the peer is serving, 0 when idle.
\* new_active_peer: registers the peer, idle, with its best block number
FetcherNewActivePeer(fp, peer, number) ==
    Insert(fp, peer, [best_number |-> number, inflight |-> 0, closing |-> FALSE])

\* update_peer_block returns true iff the peer is registered and the number
\* is a height advance
FetcherUpdateAdvances(fp, peer, number) ==
    peer \in DOMAIN fp /\ number > fp[peer].best_number

FetcherUpdatePeerBlock(fp, peer, number) ==
    IF FetcherUpdateAdvances(fp, peer, number)
    THEN [fp EXCEPT ![peer].best_number = number]
    ELSE fp

\* on_pending_disconnect: the peer gets no further requests
FetcherOnPendingDisconnect(fp, peer) ==
    IF peer \in DOMAIN fp THEN [fp EXCEPT ![peer].closing = TRUE] ELSE fp

\* the caller of request rid observes res, attributed to peer `by`
Deliver(rq, rid, res, by) == [rq EXCEPT ![rid].result = res, ![rid].by = by]

\* on_session_closed: drops the peer; the caller of its in-flight request
\* observes ConnectionDropped
FetcherOnSessionClosed(st, peer) ==
    IF peer \in DOMAIN st.fp
    THEN [st EXCEPT
            !.fp = Remove(@, peer),
            !.rq = IF st.fp[peer].inflight # 0
                   THEN Deliver(@, st.fp[peer].inflight, "ConnectionDropped", peer)
                   ELSE @]
    ELSE st

FetcherIdle(fp) == {p \in DOMAIN fp : fp[p].inflight = 0 /\ ~fp[p].closing}

\* poll: Ready(BlockRequest {peer_id, request}) while a request is queued and
\* a peer is idle; `pick` ranks the peers (the fetcher takes its best idle
\* peer), 0 stands for Pending
FetcherNextPeer(st, pick) ==
    IF st.fq = <<>> \/ FetcherIdle(st.fp) = {}
    THEN 0
    ELSE pick[CHOOSE i \in 1..Len(pick) :
                /\ pick[i] \in FetcherIdle(st.fp)
                /\ \A j \in 1..(i - 1) : pick[j] \notin FetcherIdle(st.fp)]

FetcherTake(st, peer) ==
    [st EXCEPT !.fp = [@ EXCEPT ![peer].inflight = Head(st.fq)],
               !.fq = Tail(@)]

\* on_block_headers_response / on_block_bodies_response: the response goes to
\* the caller of the peer's in-flight request; the outcome is a reputation
\* change for an error, a follow-up request when one is queued, or nothing
FetcherOutcome(st, peer, res) ==
    IF peer \notin DOMAIN st.fp \/ st.fp[peer].inflight = 0 THEN None
    ELSE IF res = "err" THEN [type |-> "BadResponse", peer |-> peer]
    ELSE IF st.fq # <<>> /\ ~st.fp[peer].closing
         THEN [type |-> "Request", peer |-> peer, request |-> Head(st.fq)]
    ELSE None

FetcherOnResponse(st, peer, res) ==
    IF peer \notin DOMAIN st.fp \/ st.fp[peer].inflight = 0 THEN st
    ELSE LET out == FetcherOutcome(st, peer, res)
             st1 == [st EXCEPT
                        !.rq = Deliver(@, st.fp[peer].inflight, res, peer),
                        !.fp = [@ EXCEPT ![peer].inflight = 0]]
         IN  IF out # None /\ out.type = "Request"
             THEN FetcherTake(st1, peer)
             ELSE st1

\* client.block_number(hash).ok().flatten().unwrap_or_default()
ClientBlockNumber(h) == h

\* ------------------------------------------------------------- StateAction
NewBlockAction(p, h) == [type |-> "NewBlock", peer_id |-> p, hash |-> h]

NewBlockHashesAction(p, h) == [type |-> "NewBlockHashes", peer_id |-> p, hash |-> h]

\* ---------------------------------------------------------------- ActivePeer
\* Mutant: the cache is made one entry too large
NewActivePeerOversized(blockhash) ==
    [best_hash |-> blockhash,
     pending_response |-> None,
     blocks |-> LruNew(PEER_BLOCK_CACHE_LIMIT + 1)]

\* pending_response is None or [rid, polled]: polled tells that the response
\* future was polled since it was stored, so that its completion wakes the
\* task
NewActivePeer(blockhash) ==
    [best_hash |-> blockhash,
     pending_response |-> None,
     blocks |-> LruNew(PEER_BLOCK_CACHE_LIMIT)]

\* last_call.op: "block" after announce_new_block(arg), "hash" after
\* announce_new_block_hash(arg), "block_hash" after announce_new_block_hash(arg)
\* called right after announce_new_block(arg), "poll" after an invocation of
\* poll (arg alternates between 0 and 1 over successive invocations), "none"
\* after anything else
NoCall == [op |-> "none", arg |-> 0]
\* poll was not the last call, or has not returned yet
NotPolled == [poll |-> "none", item |-> None]

Polled == [op |-> "poll", arg |-> IF last_call.op = "poll" THEN 1 - last_call.arg ELSE 0]

\* The coordinator's state as one record, threaded through a handler
State ==
    [ap |-> active_peers, qm |-> queued_messages, fp |-> fetch_peers,
     fq |-> fetch_queued, rq |-> requests, rx |-> session_rx,
     pen |-> penalized, disc |-> discovery, pa |-> peer_actions,
     eth |-> eth_responses]

Becomes(st) ==
    /\ active_peers' = st.ap
    /\ queued_messages' = st.qm
    /\ fetch_peers' = st.fp
    /\ fetch_queued' = st.fq
    /\ requests' = st.rq
    /\ session_rx' = st.rx
    /\ penalized' = st.pen
    /\ discovery' = st.disc
    /\ peer_actions' = st.pa
    /\ eth_responses' = st.eth

Init ==
    /\ active_peers = EmptyMap
    /\ queued_messages = <<>>
    /\ fetch_peers = EmptyMap
    /\ fetch_queued = <<>>
    /\ requests = <<>>
    /\ session_rx = EmptyMap
    /\ penalized = {}
    /\ discovery = [ready |-> <<>>, banned |-> {}]
    /\ peer_actions = <<>>
    /\ eth_responses = {}
    /\ pc = "out"
    /\ poll_result = NotPolled
    /\ woken = TRUE
    /\ build \in {"debug", "release"}
    /\ panicked = FALSE
    /\ inner = [futures |-> <<>>, ready |-> <<>>]
    /\ last_requested_block_number = None
    /\ next_request = 0
    /\ stream_item = None
    /\ informed = {}
    /\ last_call = NoCall
    /\ pushed_max = None
    /\ pushed_sorted = TRUE
    /\ pushed_last = None
    /\ live = {}
    /\ cleared = {}

Running == ~panicked

\* --------------------------------------------------- on_session_activated
\* debug_assert!(!contains_key(peer)) aborts a debug build; a release build
\* goes on and inserts.  The caller hands over the sending end of a new
\* request channel, whose receiving end the peer's session holds.
SessionActivated(st, peer, blockhash) ==
    [st EXCEPT
        !.fp = FetcherNewActivePeer(@, peer, ClientBlockNumber(blockhash)),
        !.ap = Insert(@, peer, NewActivePeer(blockhash)),
        !.rx = Insert(@, peer, [open |-> TRUE, queue |-> <<>>])]

on_session_activated(peer, blockhash) ==
    /\ Running
    /\ IF build = "debug" /\ peer \in DOMAIN active_peers
       THEN /\ panicked' = TRUE
            /\ UNCHANGED <<active_peers, queued_messages, fetch_peers,
                           fetchSide, informed>>
       ELSE /\ Becomes(SessionActivated(State, peer, blockhash))
            /\ informed' = {x \in informed : x[1] # peer}
            /\ UNCHANGED panicked
    /\ last_call' = NoCall
    /\ poll_result' = NotPolled
    /\ woken' = TRUE
    /\ UNCHANGED <<build, pc, queueSide>>

\* ------------------------------------------------------- on_session_closed
\* Mutant: the fetcher is not told
SessionClosedTableOnly(st, peer) == [st EXCEPT !.ap = Remove(@, peer)]

SessionClosed(st, peer) ==
    FetcherOnSessionClosed([st EXCEPT !.ap = Remove(@, peer)], peer)

on_session_closed(peer) ==
    /\ Running
    /\ Becomes(SessionClosed(State, peer))
    /\ informed' = {x \in informed : x[1] # peer}
    /\ last_call' = NoCall
    /\ poll_result' = NotPolled
    /\ woken' = TRUE
    /\ UNCHANGED <<build, pc, panicked, queueSide>>

\* ------------------------------------------------------ announce_new_block
\* The state threaded through the loop over active_peers.iter_mut():
\* st = [ap, qm, fp, count]
AnnounceNewBlockVisit(st, peer_id, hash, number) ==
    [ap |-> [st.ap EXCEPT
                ![peer_id].best_hash =
                    IF FetcherUpdateAdvances(st.fp, peer_id, number)
                    THEN hash ELSE @,
                ![peer_id].blocks = LruInsert(@, hash)],
     qm |-> Append(st.qm, NewBlockAction(peer_id, hash)),
     fp |-> FetcherUpdatePeerBlock(st.fp, peer_id, number),
     count |-> st.count + 1]

\* Mutant: a peer that is skipped counts against the budget
RECURSIVE AnnounceNewBlockLoopCountingSkips(_, _, _, _, _)
AnnounceNewBlockLoopCountingSkips(order, st, hash, number, num_propagate) ==
    IF order = <<>> THEN st
    ELSE LET st1 == IF LruContains(st.ap[Head(order)].blocks, hash)
                    THEN [st EXCEPT !.count = @ + 1]
                    ELSE IF st.count < num_propagate
                    THEN AnnounceNewBlockVisit(st, Head(order), hash, number)
                    ELSE st
         IN  IF st1.count >= num_propagate
             THEN st1
             ELSE AnnounceNewBlockLoopCountingSkips(Tail(order), st1, hash,
                                                    number, num_propagate)

RECURSIVE AnnounceNewBlockLoop(_, _, _, _, _)
AnnounceNewBlockLoop(order, st, hash, number, num_propagate) ==
    IF order = <<>> THEN st
    ELSE IF LruContains(st.ap[Head(order)].blocks, hash)
         THEN AnnounceNewBlockLoop(Tail(order), st, hash, number, num_propagate)
         ELSE LET st1 == IF st.count < num_propagate
                         THEN AnnounceNewBlockVisit(st, Head(order), hash, number)
                         ELSE st
              IN  IF st1.count >= num_propagate
                  THEN st1
                  ELSE AnnounceNewBlockLoop(Tail(order), st1, hash, number,
                                            num_propagate)

\* Mutant: the budget is the whole table
NumPropagateEveryPeer(n) == n + 1

NumPropagate(n) == FloorSqrt(n) + 1

announce_new_block(hash, number) ==
    /\ Running
    /\ \E order \in Perms(DOMAIN active_peers) :
          LET st == AnnounceNewBlockLoop(
                        order,
                        [ap |-> active_peers, qm |-> queued_messages,
                         fp |-> fetch_peers, count |-> 0],
                        hash, number,
                        NumPropagate(Cardinality(DOMAIN active_peers)))
          IN  /\ Len(st.qm) <= MaxQueued
              /\ active_peers' = st.ap
              /\ queued_messages' = st.qm
              /\ fetch_peers' = st.fp
              /\ informed' = informed \cup
                    {<<st.qm[i].peer_id, hash>> :
                        i \in (Len(queued_messages) + 1)..Len(st.qm)}
    /\ last_call' = [op |-> "block", arg |-> hash]
    /\ poll_result' = NotPolled
    /\ woken' = TRUE
    /\ UNCHANGED <<fetchSide, build, pc, panicked, queueSide>>

\* ------------------------------------------------- announce_new_block_hash
AnnounceNewBlockHashVisit(st, peer_id, hash, number) ==
    [ap |-> [st.ap EXCEPT
                ![peer_id].best_hash =
                    IF FetcherUpdateAdvances(st.fp, peer_id, number)
                    THEN hash ELSE @],
     qm |-> Append(st.qm, NewBlockHashesAction(peer_id, hash)),
     fp |-> FetcherUpdatePeerBlock(st.fp, peer_id, number)]

\* Mutant: peers that already know the hash are not skipped
RECURSIVE AnnounceNewBlockHashLoopNoSkip(_, _, _, _)
AnnounceNewBlockHashLoopNoSkip(order, st, hash, number) ==
    IF order = <<>> THEN st
    ELSE AnnounceNewBlockHashLoopNoSkip(
             Tail(order),
             AnnounceNewBlockHashVisit(st, Head(order), hash, number),
             hash, number)

RECURSIVE AnnounceNewBlockHashLoop(_, _, _, _)
AnnounceNewBlockHashLoop(order, st, hash, number) ==
    IF order = <<>> THEN st
    ELSE IF LruContains(st.ap[Head(order)].blocks, hash)
         THEN AnnounceNewBlockHashLoop(Tail(order), st, hash, number)
         ELSE AnnounceNewBlockHashLoop(
                  Tail(order),
                  AnnounceNewBlockHashVisit(st, Head(order), hash, number),
                  hash, number)

announce_new_block_hash(hash, number) ==
    /\ Running
    /\ \E order \in Perms(DOMAIN active_peers) :
          LET st == AnnounceNewBlockHashLoop(
                        order,
                        [ap |-> active_peers, qm |-> queued_messages,
                         fp |-> fetch_peers],
                        hash, number)
          IN  /\ Len(st.qm) <= MaxQueued
              /\ active_peers' = st.ap
              /\ queued_messages' = st.qm
              /\ fetch_peers' = st.fp
              /\ informed' = informed \cup
                    {<<st.qm[i].peer_id, hash>> :
                        i \in (Len(queued_messages) + 1)..Len(st.qm)}
    /\ last_call' = [op |-> IF last_call = [op |-> "block", arg |-> hash]
                          THEN "block_hash" ELSE "hash",
                   arg |-> hash]
    /\ poll_result' = NotPolled
    /\ woken' = TRUE
    /\ UNCHANGED <<fetchSide, build, pc, panicked, queueSide>>

\* ------------------------------------------------------- update_peer_block
update_peer_block(peer_id, hash, number) ==
    /\ Running
    /\ active_peers' = IF peer_id \in DOMAIN active_peers
                       THEN [active_peers EXCEPT ![peer_id].best_hash = hash]
                       ELSE active_peers
    /\ fetch_peers' = FetcherUpdatePeerBlock(fetch_peers, peer_id, number)
    /\ last_call' = NoCall
    /\ poll_result' = NotPolled
    /\ woken' = TRUE
    /\ UNCHANGED <<queued_messages, fetchSide, build, pc, panicked, informed,
                   queueSide>>

\* ------------------------------------------------------------ on_new_block
on_new_block(peer_id, hash) ==
    /\ Running
    /\ active_peers' = IF peer_id \in DOMAIN active_peers
                       THEN [active_peers EXCEPT
                                ![peer_id].blocks = LruInsert(@, hash)]
                       ELSE active_peers
    /\ informed' = IF peer_id \in DOMAIN active_peers
                   THEN informed \cup {<<peer_id, hash>>}
                   ELSE informed
    /\ last_call' = NoCall
    /\ poll_result' = NotPolled
    /\ woken' = TRUE
    /\ UNCHANGED <<queued_messages, fetch_peers, fetchSide, build, pc, panicked,
                   queueSide>>

\* ----------------------------------------------------- on_new_block_hashes
on_new_block_hashes(peer_id, hashes) ==
    /\ Running
    /\ active_peers' = IF peer_id \in DOMAIN active_peers
                       THEN [active_peers EXCEPT
                                ![peer_id].blocks = LruExtend(@, hashes)]
                       ELSE active_peers
    /\ informed' = IF peer_id \in DOMAIN active_peers
                   THEN informed \cup {<<peer_id, h>> : h \in Range(hashes)}
                   ELSE informed
    /\ last_call' = NoCall
    /\ poll_result' = NotPolled
    /\ woken' = TRUE
    /\ UNCHANGED <<queued_messages, fetch_peers, fetchSide, build, pc, panicked,
                   queueSide>>

\* A request's response channel (oneshot) is "none" before the request is
\* dispatched, "waiting" while the session holds the sending half, "ok" or
\* "err" once the session answered, "dropped" once the session dropped the
\* sending half unanswered, and "unsent" when the request never reached the
\* session.  Polling a "dropped" or "unsent" channel yields an error for which
\* is_channel_closed() holds.
ChannelClosed(oneshot) == oneshot \in {"dropped", "unsent"}

\* ---------------------------------------------------- handle_block_request
\* try_send fails when the session's channel is full or closed: the request is
\* dropped, and with it the sending half of its response channel.
\* Mutant: the channel takes any number of requests
TrySendUnbounded(st, peer) ==
    /\ peer \in DOMAIN st.rx
    /\ st.rx[peer].open

TrySendOk(st, peer) ==
    /\ peer \in DOMAIN st.rx
    /\ st.rx[peer].open
    /\ Len(st.rx[peer].queue) < SessionChannelCap

\* Mutant: a pending response is kept, the new one is dropped
handle_block_request_keeping(st, peer, request) ==
    IF peer \in DOMAIN st.ap
    THEN IF st.ap[peer].pending_response # None
         THEN [st EXCEPT !.rq = [@ EXCEPT ![request].oneshot = "unsent",
                                          ![request].to = peer]]
         ELSE [st EXCEPT
                 !.rx = IF TrySendOk(st, peer)
                        THEN [@ EXCEPT ![peer].queue = Append(@, request)]
                        ELSE @,
                 !.rq = [@ EXCEPT ![request].oneshot =
                             IF TrySendOk(st, peer) THEN "waiting" ELSE "unsent",
                                  ![request].to = peer],
                 !.ap = [@ EXCEPT ![peer].pending_response =
                             [rid |-> request, polled |-> FALSE]]]
    ELSE st

handle_block_request(st, peer, request) ==
    IF peer \in DOMAIN st.ap
    THEN [st EXCEPT
            !.rx = IF TrySendOk(st, peer)
                   THEN [@ EXCEPT ![peer].queue = Append(@, request)]
                   ELSE @,
            !.rq = [@ EXCEPT ![request].oneshot =
                        IF TrySendOk(st, peer) THEN "waiting" ELSE "unsent",
                             ![request].to = peer],
            !.ap = [@ EXCEPT ![peer].pending_response =
                        [rid |-> request, polled |-> FALSE]]]
    ELSE st

\* ----------------------------------------------- on_block_response_outcome
\* Mutant: a bad response ends the peer's session
on_block_response_outcome_dropping(st, outcome) ==
    IF outcome.type = "Request"
    THEN handle_block_request(st, outcome.peer, outcome.request)
    ELSE SessionClosed(st, outcome.peer)

on_block_response_outcome(st, outcome) ==
    IF outcome.type = "Request"
    THEN handle_block_request(st, outcome.peer, outcome.request)
    ELSE [st EXCEPT !.pen = @ \cup {outcome.peer}]

\* --------------------------------------------------------- on_eth_response
\* `?` on the fetcher's answer: no outcome, nothing more to do
on_eth_response(st, peer, resp) ==
    IF FetcherOutcome(st, peer, resp) = None
    THEN FetcherOnResponse(st, peer, resp)
    ELSE on_block_response_outcome(FetcherOnResponse(st, peer, resp),
                                   FetcherOutcome(st, peer, resp))

\* ------------------------------------------------------ on_discovery_event
\* Mutant: the action goes to the front of the buffer
on_discovery_event_front(st, event) ==
    [st EXCEPT !.qm = <<
        IF event.type = "Discovered"
        THEN [type |-> "DiscoveredNode", peer_id |-> event.peer_id]
        ELSE [type |-> "DiscoveredEnrForkId", peer_id |-> event.peer_id]>> \o @]

on_discovery_event(st, event) ==
    [st EXCEPT !.qm = Append(@,
        IF event.type = "Discovered"
        THEN [type |-> "DiscoveredNode", peer_id |-> event.peer_id]
        ELSE [type |-> "DiscoveredEnrForkId", peer_id |-> event.peer_id])]

\* ---------------------------------------------------------- on_peer_action
\* Mutant: every action of the peers manager is passed on as a StateAction
on_peer_action_passing_all(st, action) ==
    [st EXCEPT !.qm = Append(@, [type |-> action.type,
                                 peer_id |-> action.peer_id])]

\* Mutant: a disconnect takes the peer out of the table at once
on_peer_action_dropping(st, action) ==
    CASE action.type = "Connect" ->
            [st EXCEPT !.qm = Append(@, [type |-> "Connect",
                                        peer_id |-> action.peer_id])]
      [] action.type \in {"Disconnect", "DisconnectBannedIncoming"} ->
            [st EXCEPT !.fp = FetcherOnPendingDisconnect(@, action.peer_id),
                       !.ap = Remove(@, action.peer_id),
                       !.qm = Append(@, [type |-> "Disconnect",
                                        peer_id |-> action.peer_id])]
      [] action.type \in {"DiscoveryBanPeerId", "DiscoveryBanIp"} ->
            [st EXCEPT !.disc.banned = @ \cup {action.peer_id}]
      [] action.type = "PeerAdded" ->
            [st EXCEPT !.qm = Append(@, [type |-> "PeerAdded",
                                        peer_id |-> action.peer_id])]
      [] action.type = "PeerRemoved" ->
            [st EXCEPT !.qm = Append(@, [type |-> "PeerRemoved",
                                        peer_id |-> action.peer_id])]
      [] OTHER -> st

on_peer_action(st, action) ==
    CASE action.type = "Connect" ->
            [st EXCEPT !.qm = Append(@, [type |-> "Connect",
                                        peer_id |-> action.peer_id])]
      [] action.type \in {"Disconnect", "DisconnectBannedIncoming"} ->
            [st EXCEPT !.fp = FetcherOnPendingDisconnect(@, action.peer_id),
                       !.qm = Append(@, [type |-> "Disconnect",
                                        peer_id |-> action.peer_id])]
      [] action.type \in {"DiscoveryBanPeerId", "DiscoveryBanIp"} ->
            [st EXCEPT !.disc.banned = @ \cup {action.peer_id}]
      [] action.type = "PeerAdded" ->
            [st EXCEPT !.qm = Append(@, [type |-> "PeerAdded",
                                        peer_id |-> action.peer_id])]
      [] action.type = "PeerRemoved" ->
            [st EXCEPT !.qm = Append(@, [type |-> "PeerRemoved",
                                        peer_id |-> action.peer_id])]
      [] OTHER -> st

\* -------------------------------------------------------------------- poll
\* while let Poll::Ready(discovery) = self.discovery.poll(cx)
RECURSIVE DrainDiscovery(_)
DrainDiscovery(st) ==
    IF st.disc.ready = <<>> THEN st
    ELSE DrainDiscovery(on_discovery_event(
            [st EXCEPT !.disc.ready = Tail(@)], Head(st.disc.ready)))

\* while let Poll::Ready(action) = self.state_fetcher.poll(cx)
RECURSIVE DrainFetcher(_, _)
DrainFetcher(st, pick) ==
    IF FetcherNextPeer(st, pick) = 0 THEN st
    ELSE DrainFetcher(
            handle_block_request(FetcherTake(st, FetcherNextPeer(st, pick)),
                                 FetcherNextPeer(st, pick), Head(st.fq)),
            pick)

\* for (id, peer) in self.active_peers.iter_mut(): sc = [st, closed, received]
RECURSIVE PollResponses(_, _)
PollResponses(order, sc) ==
    IF order = <<>> THEN sc
    ELSE LET id == Head(order)
             pending == sc.st.ap[id].pending_response
         IN  IF pending = None THEN PollResponses(Tail(order), sc)
             ELSE LET res == sc.st.rq[pending.rid].oneshot
                      taken == [sc.st EXCEPT !.ap[id].pending_response = None]
                  IN  PollResponses(Tail(order),
                        IF ChannelClosed(res)
                        THEN [sc EXCEPT !.st = taken,
                                        !.closed = Append(@, id)]
                        ELSE IF res \in {"ok", "err"}
                        THEN [sc EXCEPT !.st = taken,
                                        !.received = Append(@, <<id, res, pending.rid>>)]
                        ELSE [sc EXCEPT !.st.ap[id].pending_response.polled = TRUE])

\* Mutant: the sessions found closed are left alone
CloseSessionsSkipped(st, closed) == st

\* for peer in closed_sessions
RECURSIVE CloseSessions(_, _)
CloseSessions(st, closed) ==
    IF closed = <<>> THEN st
    ELSE CloseSessions(SessionClosed(st, Head(closed)), Tail(closed))

\* Mutant: the collected responses are not handed on
HandleResponsesSkipped(st, received) == st

\* for (peer_id, resp) in received_responses
RECURSIVE HandleResponses(_, _)
HandleResponses(st, received) ==
    IF received = <<>> THEN st
    ELSE HandleResponses(
             on_eth_response(
                 [st EXCEPT !.eth = @ \cup {<<Head(received)[1], Head(received)[3]>>}],
                 Head(received)[1], Head(received)[2]),
             Tail(received))

\* while let Poll::Ready(action) = self.peers_manager.poll(cx)
RECURSIVE DrainPeerActions(_)
DrainPeerActions(st) ==
    IF st.pa = <<>> THEN st
    ELSE DrainPeerActions(on_peer_action([st EXCEPT !.pa = Tail(@)], Head(st.pa)))

\* The pass from the scan of the pending responses on
PollPassBelowFetcher(st, order) ==
    LET sc == PollResponses(order, [st |-> st, closed |-> <<>>, received |-> <<>>])
    IN  DrainPeerActions(
            HandleResponses(CloseSessions(sc.st, sc.closed), sc.received))

\* One pass of the loop body below the drain of the buffered messages
PollPass(st, order, pick) ==
    PollPassBelowFetcher(DrainFetcher(DrainDiscovery(st), pick), order)

\* Poll::Ready(oldest buffered action), or Poll::Pending on an empty buffer
PollReturns(qm) ==
    IF qm = <<>> THEN [poll |-> "Pending", item |-> None]
    ELSE [poll |-> "Ready", item |-> Head(qm)]

\* Mutant: a pass over the sources also when an action is buffered
poll_passing_first ==
    /\ Running
    /\ pc = "out"
    /\ \E order \in Perms(DOMAIN active_peers), pick \in Perms(DOMAIN fetch_peers) :
          LET st == PollPass(State, order, pick)
          IN  /\ Becomes([st EXCEPT !.qm = IF st.qm = <<>> THEN <<>>
                                           ELSE Tail(st.qm)])
              /\ poll_result' = PollReturns(st.qm)
              /\ woken' = (st.qm # <<>>)
    /\ informed' = {x \in informed : x[1] \in DOMAIN active_peers'}
    /\ last_call' = Polled
    /\ UNCHANGED <<build, pc, panicked, queueSide>>

\* One invocation: Ready(oldest buffered action) at once when one is buffered;
\* else one pass, after which the loop returns Pending on an empty buffer and
\* otherwise starts over and returns the oldest action.
poll ==
    /\ Running
    /\ pc = "out"
    /\ IF queued_messages # <<>>
       THEN /\ queued_messages' = Tail(queued_messages)
            /\ poll_result' = PollReturns(queued_messages)
            /\ woken' = TRUE
            /\ UNCHANGED <<active_peers, fetch_peers, fetchSide>>
       ELSE \E order \in Perms(DOMAIN active_peers), pick \in Perms(DOMAIN fetch_peers) :
              LET st == PollPass(State, order, pick)
              IN  /\ Becomes([st EXCEPT !.qm = IF st.qm = <<>> THEN <<>>
                                               ELSE Tail(st.qm)])
                  /\ poll_result' = PollReturns(st.qm)
                  /\ woken' = (st.qm # <<>>)
    /\ informed' = {x \in informed : x[1] \in DOMAIN active_peers'}
    /\ last_call' = Polled
    /\ UNCHANGED <<build, pc, panicked, queueSide>>

\* ------------------------------------------------- the coordinator's peers
\* The waker of the owning task is registered with the response channel of
\* request rid: the channel is some peer's pending response and was polled.
WakerRegistered(rid) ==
    \E p \in DOMAIN active_peers :
        /\ active_peers[p].pending_response # None
        /\ active_peers[p].pending_response.rid = rid
        /\ active_peers[p].pending_response.polled

\* FetchClient::get_block_bodies / get_headers: a caller hands a request to the
\* fetcher and waits for its result
client_request ==
    /\ Running
    /\ Len(requests) < MaxRequests
    /\ requests' = Append(requests, [oneshot |-> "none", result |-> "none", by |-> 0, to |-> 0])
    /\ fetch_queued' = Append(fetch_queued, Len(requests) + 1)
    /\ woken' = TRUE
    /\ UNCHANGED <<active_peers, queued_messages, fetch_peers, session_rx,
                   penalized, discovery, peer_actions, eth_responses, build, pc,
                   panicked, informed, last_call, queueSide>>
    /\ poll_result' = NotPolled

\* The peer's session receives the oldest request and sends res on its
\* response channel
session_answer(peer, res) ==
    /\ Running
    /\ peer \in DOMAIN session_rx
    /\ session_rx[peer].open
    /\ session_rx[peer].queue # <<>>
    /\ session_rx' = [session_rx EXCEPT ![peer].queue = Tail(@)]
    /\ requests' = [requests EXCEPT ![Head(session_rx[peer].queue)].oneshot = res]
    /\ woken' = (woken \/ WakerRegistered(Head(session_rx[peer].queue)))
    /\ UNCHANGED <<active_peers, queued_messages, fetch_peers, fetch_queued,
                   penalized, discovery, peer_actions, eth_responses, build, pc,
                   panicked, informed, last_call, queueSide>>
    /\ poll_result' = NotPolled

\* The peer's session receives the oldest request and drops it unanswered
session_drop_request(peer) ==
    /\ Running
    /\ peer \in DOMAIN session_rx
    /\ session_rx[peer].open
    /\ session_rx[peer].queue # <<>>
    /\ session_rx' = [session_rx EXCEPT ![peer].queue = Tail(@)]
    /\ requests' = [requests EXCEPT ![Head(session_rx[peer].queue)].oneshot = "dropped"]
    /\ woken' = (woken \/ WakerRegistered(Head(session_rx[peer].queue)))
    /\ UNCHANGED <<active_peers, queued_messages, fetch_peers, fetch_queued,
                   penalized, discovery, peer_actions, eth_responses, build, pc,
                   panicked, informed, last_call, queueSide>>
    /\ poll_result' = NotPolled

\* The peer's session task ends: the channel closes and the requests still in
\* it are dropped
session_end(peer) ==
    /\ Running
    /\ peer \in DOMAIN session_rx
    /\ session_rx[peer].open
    /\ session_rx' = [session_rx EXCEPT ![peer] = [open |-> FALSE, queue |-> <<>>]]
    /\ requests' = [r \in DOMAIN requests |->
                      IF r \in Range(session_rx[peer].queue)
                      THEN [requests[r] EXCEPT !.oneshot = "dropped"]
                      ELSE requests[r]]
    /\ woken' = (woken \/ \E r \in Range(session_rx[peer].queue) : WakerRegistered(r))
    /\ UNCHANGED <<active_peers, queued_messages, fetch_peers, fetch_queued,
                   penalized, discovery, peer_actions, eth_responses, build, pc,
                   panicked, informed, last_call, queueSide>>
    /\ poll_result' = NotPolled

\* The peer the events of discovery and of the peers manager are about
EventPeerIds == {1}

\* Discovery has an event ready for its next poll
DiscoveryEvents ==
    {[type |-> t, peer_id |-> p] : t \in {"Discovered", "EnrForkId"},
                                   p \in EventPeerIds}

\* Events not yet polled and actions not yet returned
Outstanding == Len(discovery.ready) + Len(peer_actions) + Len(queued_messages)

discovery_ready(event) ==
    /\ Running
    /\ Outstanding < MaxEvents
    /\ discovery' = [discovery EXCEPT !.ready = Append(@, event)]
    /\ woken' = TRUE
    /\ UNCHANGED <<active_peers, queued_messages, fetch_peers, fetch_queued,
                   requests, session_rx, penalized, peer_actions, eth_responses,
                   build, pc, panicked, informed, last_call, queueSide>>
    /\ poll_result' = NotPolled

\* The peers manager has an action ready for its next poll
PeerActionTypes ==
    {"Connect", "Disconnect", "DisconnectBannedIncoming", "DiscoveryBanPeerId",
     "DiscoveryBanIp", "PeerAdded", "PeerRemoved", "BanPeer", "UnBanPeer"}

PeerActions ==
    {[type |-> t, peer_id |-> p] : t \in PeerActionTypes, p \in EventPeerIds}

peers_manager_ready(action) ==
    /\ Running
    /\ Outstanding < MaxEvents
    /\ peer_actions' = Append(peer_actions, action)
    /\ woken' = TRUE
    /\ UNCHANGED <<active_peers, queued_messages, fetch_peers, fetch_queued,
                   requests, session_rx, penalized, discovery, eth_responses,
                   build, pc, panicked, informed, last_call, queueSide>>
    /\ poll_result' = NotPolled

HashLists == {<<h>> : h \in Hashes} \cup {<<h, g>> : h, g \in Hashes}

Next ==
    \/ \E p \in PeerIds, h \in {ZeroHash} : on_session_activated(p, h)
    \/ \E p \in PeerIds : on_session_closed(p)
    \/ \E h \in Hashes : announce_new_block(h, h)
    \/ \E h \in Hashes : announce_new_block_hash(h, h)
    \/ \E p \in PeerIds, h \in Hashes : on_new_block(p, h)
    \/ \E p \in PeerIds, hs \in HashLists : on_new_block_hashes(p, hs)
    \/ poll

Spec == Init /\ [][Next]_vars

\* ------------------------------------------------ requests and responses
FetchPeerIds == 1..MaxFetchPeers

\* The connection layer keeps its contract: one session per peer id
NextFetch ==
    \/ \E p \in FetchPeerIds :
          p \notin DOMAIN active_peers /\ on_session_activated(p, ZeroHash)
    \/ \E p \in FetchPeerIds : on_session_closed(p)
    \/ \E p \in FetchPeerIds, h \in Hashes : update_peer_block(p, h, h)
    \/ client_request
    \/ \E p \in FetchPeerIds, res \in {"ok", "err"} : session_answer(p, res)
    \/ \E p \in FetchPeerIds : session_drop_request(p)
    \/ \E p \in FetchPeerIds : session_end(p)
    \/ poll

SpecFetch == Init /\ [][NextFetch]_vars

\* The owning task polls the coordinator whenever it was woken
\* (a step to a state with last_call = Polled is an invocation of poll, which is
\* possible in every state of a running process)
SpecFetchFair == SpecFetch /\ WF_last_call(woken /\ Running /\ last_call' = Polled)

\* ======================================================= BodiesRequestQueue
\* A SealedHeader is its block number; a request is a list of headers.
BlockNumbers == 1..MaxBlock

SealedHeaderLists == UNION {[1..n -> BlockNumbers] : n \in 0..MaxHeaders}

Sorted(request) ==
    \A i \in 1..(Len(request) - 1) : request[i] <= request[i + 1]

Max(S) == CHOOSE x \in S : \A y \in S : y <= x

\* Mutant: the mark follows the last header of the latest request
LastRequestedNoMax(last_requested, request) ==
    IF request = <<>> THEN last_requested
    ELSE Some(request[Len(request)])

\* request.last().map(|last| match self.last_requested_block_number {
\*     Some(num) => last.number.max(num), None => last.number })
\*   .or(self.last_requested_block_number)
LastRequested(last_requested, request) ==
    IF request = <<>> THEN last_requested
    ELSE IF last_requested = None THEN Some(request[Len(request)])
    ELSE Some(Max({request[Len(request)], last_requested.some}))

\* --------------------------------------------------------- push_new_request
\* The new request future gets the next id and joins the in-flight set.
push_new_request(request) ==
    /\ next_request < MaxPushes
    /\ last_requested_block_number' =
          LastRequested(last_requested_block_number, request)
    /\ inner' = [inner EXCEPT !.futures = Append(@, next_request + 1)]
    /\ next_request' = next_request + 1
    /\ pushed_max' = IF request = <<>> THEN pushed_max
                     ELSE IF pushed_max = None THEN Some(Max(Range(request)))
                     ELSE Some(Max(Range(request) \cup {pushed_max.some}))
    /\ pushed_sorted' = (pushed_sorted /\ Sorted(request))
    /\ pushed_last' = Some(request)
    /\ live' = live \cup {next_request + 1}
    /\ UNCHANGED <<stream_item, cleared, netSide>>

\* -------------------------------------------------------------------- clear
\* Mutant: clear leaves the requests that have completed in the set
ClearedInnerKeepsCompleted ==
    [futures |-> SelectSeq(inner.futures,
                    LAMBDA id : \E i \in 1..Len(inner.ready) : inner.ready[i].id = id),
     ready |-> inner.ready]

\* self.inner.clear()
ClearedInner == [futures |-> <<>>, ready |-> <<>>]

clear ==
    /\ inner' = ClearedInner
    /\ last_requested_block_number' = None
    /\ pushed_max' = None
    /\ pushed_sorted' = TRUE
    /\ pushed_last' = None
    /\ live' = {}
    /\ cleared' = cleared \cup live
    /\ UNCHANGED <<next_request, stream_item, netSide>>

\* ------------------------------------------------------------ is_empty, len
is_empty == inner.futures = <<>>

len == Len(inner.futures)

\* A request future of the queue completes with res: its peer has answered
\* (or failed), and the future is next in line to be yielded.
request_completes(id, res) ==
    /\ id \in Range(inner.futures)
    /\ \A i \in 1..Len(inner.ready) : inner.ready[i].id # id
    /\ inner' = [inner EXCEPT !.ready = Append(@, [id |-> id, result |-> res])]
    /\ UNCHANGED <<last_requested_block_number, next_request, stream_item,
                   pushed_max, pushed_sorted, pushed_last, live, cleared,
                   netSide>>

\* Mutant: the stream yields in the order of the pushes
PollNextUnpinInOrder(q) ==
    IF q.futures = <<>> THEN [poll |-> "Ready", item |-> None, inner |-> q]
    ELSE IF \E i \in 1..Len(q.ready) : q.ready[i].id = Head(q.futures)
    THEN LET i == CHOOSE i \in 1..Len(q.ready) : q.ready[i].id = Head(q.futures)
         IN  [poll |-> "Ready", item |-> Some(q.ready[i]),
              inner |-> [futures |-> Tail(q.futures),
                         ready |-> SelectSeq(q.ready,
                                      LAMBDA r : r.id # Head(q.futures))]]
    ELSE [poll |-> "Pending", item |-> None, inner |-> q]

\* Mutant: the request whose result is yielded stays in the set
PollNextUnpinKeeping(q) ==
    IF q.futures = <<>> THEN [poll |-> "Ready", item |-> None, inner |-> q]
    ELSE IF q.ready # <<>>
    THEN [poll |-> "Ready", item |-> Some(Head(q.ready)),
          inner |-> [futures |-> q.futures, ready |-> Tail(q.ready)]]
    ELSE [poll |-> "Pending", item |-> None, inner |-> q]

\* self.get_mut().inner.poll_next_unpin(cx): Ready(None) on an empty set,
\* Ready(Some(result)) of the request that completed first, which leaves the
\* set, and Pending when no request has completed
PollNextUnpin(q) ==
    IF q.futures = <<>> THEN [poll |-> "Ready", item |-> None, inner |-> q]
    ELSE IF q.ready # <<>>
    THEN [poll |-> "Ready", item |-> Some(Head(q.ready)),
          inner |-> [futures |-> SeqWithout(q.futures, Head(q.ready).id),
                     ready |-> Tail(q.ready)]]
    ELSE [poll |-> "Pending", item |-> None, inner |-> q]

\* ---------------------------------------------------------------- poll_next
poll_next ==
    /\ inner' = PollNextUnpin(inner).inner
    /\ stream_item' = [poll |-> PollNextUnpin(inner).poll,
                       item |-> PollNextUnpin(inner).item]
    /\ live' = IF PollNextUnpin(inner).item = None THEN live
                ELSE live \ {PollNextUnpin(inner).item.some.id}
    /\ UNCHANGED <<last_requested_block_number, next_request, pushed_max,
                   pushed_sorted, pushed_last, cleared, netSide>>

NextQueue ==
    \/ \E request \in SealedHeaderLists : push_new_request(request)
    \/ clear
    \/ \E id \in 1..MaxPushes, res \in {"ok", "err"} : request_completes(id, res)
    \/ poll_next

SpecQueue == Init /\ [][NextQueue]_vars

\* The owner of the queue keeps polling the stream
SpecQueueFair == SpecQueue /\ WF_vars(poll_next)

\* ======================================================== known-block cache
\* One peer's cache is filled up to and beyond its limit (the caches of
\* different peers share nothing).  on_new_block fills it with new hashes up
\* to CacheExtra entries below the limit; from there on every operation that
\* touches the cache is tried, with the next hash not used so far and, once
\* the cache is full, with its oldest hash again (for the first MaxReinserts
\* hashes).
CachePeerIds == {1}

CacheHashes == 1..(PEER_BLOCK_CACHE_LIMIT + CacheExtra)

FreshHash(p) ==
    IF active_peers[p].blocks.items = <<>> THEN 1
    ELSE Max(Range(active_peers[p].blocks.items)) + 1

NearLimit(p) ==
    LruLen(active_peers[p].blocks) >= PEER_BLOCK_CACHE_LIMIT - CacheExtra

OldestAgain(p) ==
    IF /\ LruLen(active_peers[p].blocks) = PEER_BLOCK_CACHE_LIMIT
       /\ Head(active_peers[p].blocks.items) <= MaxReinserts
    THEN {Head(active_peers[p].blocks.items)}
    ELSE {}

CacheInputs(p) == ({FreshHash(p)} \cup OldestAgain(p)) \cap CacheHashes

CacheInputLists(p) ==
    {hs \in {<<FreshHash(p), FreshHash(p) + 1>>} \cup
            {<<h, FreshHash(p)>> : h \in OldestAgain(p)} :
        NearLimit(p) /\ Range(hs) \subseteq CacheHashes}

CacheAnnounced(p) ==
    IF NearLimit(p) /\ queued_messages = <<>>
    THEN {FreshHash(p)} \cap CacheHashes
    ELSE {}

NextCache ==
    \/ \E p \in CachePeerIds :
          p \notin DOMAIN active_peers /\ on_session_activated(p, ZeroHash)
    \/ \E p \in CachePeerIds \cap DOMAIN active_peers :
          \E h \in CacheInputs(p) : on_new_block(p, h)
    \/ \E p \in CachePeerIds \cap DOMAIN active_peers :
          \E hs \in CacheInputLists(p) : on_new_block_hashes(p, hs)
    \/ \E p \in CachePeerIds \cap DOMAIN active_peers :
          \E h \in CacheAnnounced(p) : announce_new_block(h, 0)
    \/ \E p \in CachePeerIds \cap DOMAIN active_peers :
          \E h \in CacheAnnounced(p) : announce_new_block_hash(h, 0)
    \/ queued_messages # <<>> /\ poll

SpecCache == Init /\ [][NextCache]_vars

\* ------------------------------------------- events of the two sources
\* One peer, one request, and the events of the two sources
NextEvents ==
    \/ \E p \in EventPeerIds :
          p \notin DOMAIN active_peers /\ on_session_activated(p, ZeroHash)
    \/ \E p \in EventPeerIds : on_session_closed(p)
    \/ \E p \in EventPeerIds, h \in Hashes : update_peer_block(p, h, h)
    \/ \E p \in EventPeerIds, h \in Hashes : on_new_block(p, h)
    \/ \E p \in EventPeerIds, h \in Hashes : on_new_block_hashes(p, <<h>>)
    \/ \E e \in DiscoveryEvents : discovery_ready(e)
    \/ \E a \in PeerActions : peers_manager_ready(a)
    \/ requests = <<>> /\ client_request
    \/ \E p \in EventPeerIds, res \in {"ok", "err"} : session_answer(p, res)
    \/ poll

SpecEvents == Init /\ [][NextEvents]_vars

\* ------------------------------------ every way into and out of the table
\* One peer and one request, with every kind of call and event: sessions that
\* come (also twice) and go, announcements, discoveries and disconnects from
\* the two sources, a request with its answer, its loss or the end of its
\* session
MemberEvents == {e \in DiscoveryEvents : e.type = "Discovered"}

MemberActions ==
    {a \in PeerActions : a.type \in {"Disconnect", "DisconnectBannedIncoming"}}

NextMembers ==
    \/ \E p \in EventPeerIds : on_session_activated(p, ZeroHash)
    \/ \E p \in EventPeerIds : on_session_closed(p)
    \/ \E h \in Hashes : announce_new_block(h, h)
    \/ \E h \in Hashes : announce_new_block_hash(h, h)
    \/ \E e \in MemberEvents : discovery_ready(e)
    \/ \E a \in MemberActions : peers_manager_ready(a)
    \/ requests = <<>> /\ client_request
    \/ \E p \in EventPeerIds, res \in {"ok", "err"} : session_answer(p, res)
    \/ \E p \in EventPeerIds : session_drop_request(p)
    \/ \E p \in EventPeerIds : session_end(p)
    \/ poll

SpecMembers == Init /\ [][NextMembers]_vars

\* ------------------------------------ poll, one turn of its loops a step
\* poll with nothing buffered, up to the loop over state_fetcher.poll:
\* discovery is drained
poll_enters ==
    /\ Running
    /\ pc = "out"
    /\ queued_messages = <<>>
    /\ Becomes(DrainDiscovery(State))
    /\ pc' = "fetcher"
    /\ woken' = FALSE
    /\ last_call' = Polled
    /\ poll_result' = NotPolled
    /\ UNCHANGED <<build, panicked, informed, queueSide>>

\* One turn of `while let Poll::Ready(action) = self.state_fetcher.poll(cx)`:
\* the fetcher yields BlockRequest {peer_id: peer, request}; the loop hands it
\* to handle_block_request and polls the fetcher again
fetcher_yields(peer, request) ==
    /\ pc = "fetcher"
    /\ request \in DOMAIN requests
    /\ Becomes(handle_block_request(
            [State EXCEPT !.fq = SeqWithout(@, request),
                          !.fp = IF peer \in DOMAIN @
                                 THEN [@ EXCEPT ![peer].inflight = request]
                                 ELSE @],
            peer, request))
    /\ UNCHANGED <<pc, woken, build, panicked, informed, last_call, poll_result,
                   queueSide>>

\* Mutant: the pass is the end of the invocation, whatever it buffered
fetcher_pending_suspending ==
    /\ pc = "fetcher"
    /\ \E order \in Perms(DOMAIN active_peers) :
          LET st == PollPassBelowFetcher(State, order)
          IN  /\ Becomes(st)
              /\ poll_result' = PollReturns(<<>>)
              /\ woken' = (woken \/ st.qm # <<>>)
    /\ pc' = "out"
    /\ informed' = {x \in informed : x[1] \in DOMAIN active_peers'}
    /\ UNCHANGED <<build, panicked, last_call, queueSide>>

\* state_fetcher.poll is Pending: the loop over the fetcher ends, the rest of
\* the pass follows, and poll returns as in the action poll
fetcher_pending ==
    /\ pc = "fetcher"
    /\ \E order \in Perms(DOMAIN active_peers) :
          LET st == PollPassBelowFetcher(State, order)
          IN  /\ Becomes([st EXCEPT !.qm = IF st.qm = <<>> THEN <<>>
                                           ELSE Tail(st.qm)])
              /\ poll_result' = PollReturns(st.qm)
              /\ woken' = (woken \/ st.qm # <<>>)
    /\ pc' = "out"
    /\ informed' = {x \in informed : x[1] \in DOMAIN active_peers'}
    /\ UNCHANGED <<build, panicked, last_call, queueSide>>

\* The fetcher's answer to a poll is the fetcher's choice
PollTurns ==
    \/ queued_messages # <<>> /\ poll
    \/ poll_enters
    \/ \E r \in 1..MaxRequests : fetcher_yields(1, r)
    \/ fetcher_pending

\* One event of each source, each making an action
StarvedEvents == {e \in DiscoveryEvents : e.type = "Discovered" /\ e.peer_id = 1}

StarvedActions == {a \in PeerActions : a.type = "Connect" /\ a.peer_id = 1}

NextStarve ==
    \/ /\ pc = "out"
       /\ 1 \notin DOMAIN active_peers
       /\ on_session_activated(1, ZeroHash)
    \/ \E e \in StarvedEvents : discovery_ready(e)
    \/ \E a \in StarvedActions : peers_manager_ready(a)
    \/ client_request
    \/ PollTurns

SpecStarve == Init /\ [][NextStarve]_vars

\* The owning task is scheduled: it polls when it was woken, and inside poll
\* it takes turn after turn
SpecStarveFair == SpecStarve /\ WF_vars(woken /\ PollTurns) /\ WF_vars(pc # "out" /\ PollTurns)

\* The fetcher has finitely many requests ready in an invocation of poll: it
\* answers Pending in the end, and the owning task runs on
\* (a step from pc = "fetcher" to pc = "out" is fetcher_pending, which is
\* possible in every state with pc = "fetcher")

\* Sources that deliver finitely many ready events to one invocation of poll:
\* what is ready was ready when the invocation began, and the fetcher yields
\* a request that it holds queued, once
PollTurnsOfQueued ==
    \/ queued_messages # <<>> /\ poll
    \/ poll_enters
    \/ \E i \in DOMAIN fetch_queued : fetcher_yields(1, fetch_queued[i])
    \/ fetcher_pending

NextPollEnds ==
    \/ /\ pc = "out"
       /\ 1 \notin DOMAIN active_peers
       /\ on_session_activated(1, ZeroHash)
    \/ /\ pc = "out"
       /\ \E e \in StarvedEvents : discovery_ready(e)
    \/ /\ pc = "out"
       /\ \E a \in StarvedActions : peers_manager_ready(a)
    \/ /\ pc = "out"
       /\ client_request
    \/ PollTurnsOfQueued

\* The task that is inside poll takes turn after turn
SpecPollEnds == Init /\ [][NextPollEnds]_vars /\ WF_vars(pc # "out" /\ PollTurnsOfQueued)

\* ------------------------------------------- dispatch to any peer at all
\* An invocation of poll in which state_fetcher.poll first yields
\* BlockRequest {peer_id: peer, request} for its oldest queued request,
\* whatever the state of that peer: the coordinator leaves the choice of the
\* peer to the fetcher.  (The drain of discovery, which the code does first,
\* touches nothing the dispatch reads or writes.)
poll_dispatching(peer) ==
    /\ Running
    /\ pc = "out"
    /\ queued_messages = <<>>
    /\ fetch_queued # <<>>
    /\ \E order \in Perms(DOMAIN active_peers), pick \in Perms(DOMAIN fetch_peers) :
          LET taken == IF peer \in DOMAIN fetch_peers
                       THEN FetcherTake(State, peer)
                       ELSE [State EXCEPT !.fq = Tail(@)]
              st == PollPass(handle_block_request(taken, peer, Head(fetch_queued)),
                             order, pick)
          IN  /\ Becomes([st EXCEPT !.qm = IF st.qm = <<>> THEN <<>>
                                           ELSE Tail(st.qm)])
              /\ poll_result' = PollReturns(st.qm)
              /\ woken' = (st.qm # <<>>)
    /\ informed' = {x \in informed : x[1] \in DOMAIN active_peers'}
    /\ last_call' = Polled
    /\ UNCHANGED <<build, pc, panicked, queueSide>>

NextDispatch ==
    \/ \E p \in FetchPeerIds :
          p \notin DOMAIN active_peers /\ on_session_activated(p, ZeroHash)
    \/ \E p \in FetchPeerIds : on_session_closed(p)
    \/ client_request
    \/ \E p \in FetchPeerIds, res \in {"ok", "err"} : session_answer(p, res)
    \/ \E p \in FetchPeerIds : session_drop_request(p)
    \/ \E p \in FetchPeerIds : session_end(p)
    \/ poll
    \/ \E p \in FetchPeerIds : poll_dispatching(p)

SpecDispatch == Init /\ [][NextDispatch]_vars

\* ================================================================== claims
\* The actions a step appended to queued_messages
NewMessages ==
    IF Len(queued_messages') > Len(queued_messages)
    THEN SubSeq(queued_messages', Len(queued_messages) + 1, Len(queued_messages'))
    ELSE <<>>

QueuedFor(type, h) ==
    {i \in 1..Len(queued_messages) :
        queued_messages[i].type = type /\ queued_messages[i].hash = h}

\* C1: one call of announce_new_block on a table of N peers appends at most
\* floor(sqrt(N))+1 actions, all NewBlock actions for the announced hash, each
\* for a different peer, none for a peer whose cache held the hash at the call.
C1_FanOutBound ==
    [][\A h \in Hashes :
        last_call' = [op |-> "block", arg |-> h] =>
            LET new == NewMessages
                k == Len(new)
            IN  /\ SubSeq(queued_messages', 1, Len(queued_messages)) = queued_messages
                /\ k > 0 => (k - 1) * (k - 1) <= Cardinality(DOMAIN active_peers)
                /\ \A i \in 1..k :
                     /\ new[i].type = "NewBlock"
                     /\ new[i].hash = h
                     /\ new[i].peer_id \in DOMAIN active_peers
                     /\ ~LruContains(active_peers[new[i].peer_id].blocks, h)
                /\ \A i, j \in 1..k : i # j => new[i].peer_id # new[j].peer_id]_vars

\* C1 witness: announce_new_block has just run on a table of three peers, two
\* full-block actions are queued and a third peer was left out by the budget.
C1_Witness ==
    /\ last_call.op = "block"
    /\ Cardinality(DOMAIN active_peers) = 3
    /\ Cardinality(QueuedFor("NewBlock", last_call.arg)) = 2
    /\ \E p \in DOMAIN active_peers : ~LruContains(active_peers[p].blocks, last_call.arg)
    /\ \A p \in DOMAIN active_peers : <<p, last_call.arg>> \in informed
            <=> LruContains(active_peers[p].blocks, last_call.arg)

\* C2: one call of announce_new_block_hash appends exactly one NewBlockHashes
\* action for every active peer whose cache lacks the hash, none for a peer
\* whose cache holds it, and nothing else, in every reachable state (after
\* announce_new_block for the same hash or not).
C2_HashToEveryUnknowingPeer ==
    [][\A h \in Hashes :
        (last_call'.op \in {"hash", "block_hash"} /\ last_call'.arg = h) =>
            LET new == NewMessages
            IN  /\ SubSeq(queued_messages', 1, Len(queued_messages)) = queued_messages
                /\ \A i \in 1..Len(new) :
                     /\ new[i].type = "NewBlockHashes"
                     /\ new[i].hash = h
                     /\ new[i].peer_id \in DOMAIN active_peers
                /\ \A p \in DOMAIN active_peers :
                     Cardinality({i \in 1..Len(new) : new[i].peer_id = p})
                        = IF LruContains(active_peers[p].blocks, h) THEN 0 ELSE 1]_vars

\* C2 witness: announce_new_block_hash has run right after announce_new_block
\* for the same hash; a peer informed in phase 1 got no hash-only action and a
\* peer left out of phase 1 got one.
C2_Witness ==
    /\ last_call.op = "block_hash"
    /\ \E p, q \in DOMAIN active_peers :
         /\ p # q
         /\ \E i \in QueuedFor("NewBlock", last_call.arg) :
                queued_messages[i].peer_id = p
         /\ ~\E i \in QueuedFor("NewBlockHashes", last_call.arg) :
                queued_messages[i].peer_id = p
         /\ \E i \in QueuedFor("NewBlockHashes", last_call.arg) :
                queued_messages[i].peer_id = q

\* C3: after announce_new_block followed by announce_new_block_hash for the
\* same block, the hash is in the known-block cache of every active peer.
C3_EveryPeerKnowsAfterBothPhases ==
    last_call.op = "block_hash" =>
        \A p \in DOMAIN active_peers :
            LruContains(active_peers[p].blocks, last_call.arg)

\* C4: while a peer stays connected, no announcement action (full block or
\* hash-only) is queued for it for a hash that was already announced to it or
\* that it reported itself.
C4_AnnouncedAtMostOnce ==
    [][\A i \in 1..Len(NewMessages) :
        NewMessages[i].type \in {"NewBlock", "NewBlockHashes"} =>
            <<NewMessages[i].peer_id, NewMessages[i].hash>> \notin informed]_vars

\* C7: on_session_activated for a peer id that is in the table is rejected as
\* fatal and leaves the existing entry as it was.
C7_DuplicateRegistrationRejected ==
    [][\A p \in DOMAIN active_peers :
        (\E h \in {ZeroHash} : on_session_activated(p, h)) =>
            /\ panicked'
            /\ active_peers' = active_peers]_vars

PendingRequest(p) ==
    IF p \in DOMAIN active_peers /\ active_peers[p].pending_response # None
    THEN active_peers[p].pending_response.rid
    ELSE 0

OneshotOf(r) == IF r \in DOMAIN requests THEN requests[r].oneshot ELSE "none"

ResultOf(r) == IF r \in DOMAIN requests THEN requests[r].result ELSE "none"

\* C5: when a peer's session has dropped, unanswered, the request whose
\* response the peer has pending, the caller of that request eventually
\* observes ConnectionDropped and the peer is out of the active table.
C5_DroppedRequestSurfaces ==
    \A p \in FetchPeerIds : \A r \in 1..MaxRequests :
        (PendingRequest(p) = r /\ OneshotOf(r) = "dropped")
            ~> (ResultOf(r) = "ConnectionDropped" /\ p \notin DOMAIN active_peers)

\* C6: when an active peer's pending response has been answered by its
\* session, the next pass of poll over the responses gives the answer to the
\* caller of that request, attributed to that peer; the peer stays in the
\* table and its pending_response is empty afterwards, unless the fetcher
\* returned a follow-up request, which is then the pending one.
C6_AnswerReachesCaller ==
    [][\A p \in DOMAIN active_peers :
        (/\ last_call' = Polled
         /\ queued_messages = <<>>
         /\ PendingRequest(p) # 0
         /\ OneshotOf(PendingRequest(p)) \in {"ok", "err"}) =>
            LET r == PendingRequest(p)
            IN  /\ requests'[r].result = requests[r].oneshot
                /\ requests'[r].by = p
                /\ p \in DOMAIN active_peers'
                /\ \/ active_peers'[p].pending_response = None
                   \/ /\ requests[r].oneshot = "ok"
                      /\ active_peers'[p].pending_response.rid \in Range(fetch_queued)
                      /\ active_peers'[p].pending_response.rid = fetch_peers'[p].inflight]_vars

\* C6 witness: a pass of poll has delivered an answer of peer p to the caller
\* of the request, p is active and its pending_response is empty.
C6_Witness ==
    /\ last_call.op = "poll"
    /\ \E p \in DOMAIN active_peers : \E r \in DOMAIN requests :
         /\ requests[r].result = "ok"
         /\ requests[r].by = p
         /\ active_peers[p].pending_response = None
         /\ fetch_peers[p].inflight = 0

\* The high-water mark a is at most the mark b (unset is below every number)
MarkLeq(a, b) == a = None \/ (b # None /\ a.some <= b.some)

\* C8: a push_new_request never lowers last_requested_block_number; a push of
\* an empty list leaves it as it was; and as long as every list pushed since
\* creation or the last clear was sorted ascending, it is the highest block
\* number of all pushed lists (unset when only empty lists were pushed).
\* (A step that raises next_request is a push_new_request of the list
\* pushed_last'.)
C8_HighWaterMark ==
    [][/\ next_request' = next_request + 1 =>
             /\ MarkLeq(last_requested_block_number,
                        last_requested_block_number')
             /\ (pushed_last' = Some(<<>>) =>
                    last_requested_block_number' = last_requested_block_number)
       /\ (pushed_sorted' => last_requested_block_number' = pushed_max')]_vars

\* C8 witness: after a push up to MaxBlock, a sorted list ending lower was
\* pushed and the mark is still MaxBlock.
C8_Witness ==
    /\ pushed_sorted
    /\ pushed_last = Some(<<1>>)
    /\ pushed_max = Some(MaxBlock)
    /\ last_requested_block_number = Some(MaxBlock)

\* C9: a peer's known-block cache never holds more than
\* PEER_BLOCK_CACHE_LIMIT hashes, and a call that puts one new hash into a
\* full cache (on_new_block, announce_new_block) drops exactly the oldest
\* hash and keeps the others in their order.
C9_CacheBounded ==
    [][\A p \in DOMAIN active_peers \cap DOMAIN active_peers' :
        LET old == active_peers[p].blocks.items
            new == active_peers'[p].blocks.items
        IN  /\ Len(new) <= PEER_BLOCK_CACHE_LIMIT
            /\ \A h \in Range(new) \ Range(old) :
                  (/\ Len(old) = PEER_BLOCK_CACHE_LIMIT
                   /\ (on_new_block(p, h) \/ last_call' = [op |-> "block", arg |-> h]))
                      => new = Append(Tail(old), h)]_vars

\* C9 witness: a cache at its limit that has dropped its first hash for a
\* hash beyond the limit.
C9_Witness ==
    \E p \in DOMAIN active_peers :
        /\ LruLen(active_peers[p].blocks) = PEER_BLOCK_CACHE_LIMIT
        /\ ~LruContains(active_peers[p].blocks, 1)
        /\ LruContains(active_peers[p].blocks, PEER_BLOCK_CACHE_LIMIT + 1)

\* C10: poll_next yields the result of the request that completed first,
\* whatever the order of the pushes; it is Pending only when no request of a
\* non-empty queue has completed.
C10_CompletionOrder ==
    [][poll_next =>
        IF inner.futures = <<>>
        THEN stream_item' = [poll |-> "Ready", item |-> None]
        ELSE IF inner.ready = <<>>
        THEN stream_item' = [poll |-> "Pending", item |-> None] /\ inner' = inner
        ELSE /\ stream_item' = [poll |-> "Ready", item |-> Some(Head(inner.ready))]
             /\ Head(inner.ready).id \notin Range(inner'.futures)
             /\ Range(inner'.futures) = Range(inner.futures) \ {Head(inner.ready).id}]_vars

\* C10 witness: the result of a later push was yielded while an earlier push is
\* still in flight.
C10_Witness ==
    /\ stream_item # None
    /\ stream_item.poll = "Ready"
    /\ stream_item.item # None
    /\ \E id \in Range(inner.futures) : id < stream_item.item.some.id

\* C11: clear leaves the queue empty (len 0, is_empty) with the high-water
\* mark unset, and no request dropped by a clear is yielded afterwards; len
\* and is_empty always count the requests pushed and neither yielded nor
\* cleared, whatever the high-water mark is.
C11_ClearDropsEverything ==
    [][/\ clear => (len' = 0 /\ is_empty' /\ last_requested_block_number' = None)
       /\ len' = Cardinality(live')
       /\ is_empty' = (live' = {})
       /\ (stream_item' # None /\ stream_item'.item # None) =>
             stream_item'.item.some.id \notin cleared']_vars

\* C11 witness: a clear has just dropped every request pushed so far, at
\* least two of them.
C11_Witness ==
    /\ Cardinality(cleared) >= 2
    /\ is_empty
    /\ len = 0
    /\ last_requested_block_number = None
    /\ pushed_last = None
    /\ next_request = Cardinality(cleared)

\* The request r was handed to peer p's handle_block_request in this step
DispatchedTo(r, p) == requests[r].to = 0 /\ requests'[r].to = p

\* C12: a peer has at most one pending response; a response is handed to
\* on_eth_response only while it is the peer's pending response; and when a
\* request is dispatched to a peer whose pending response has not been handed
\* on (it is not a follow-up), the new response replaces the pending one, so
\* that the earlier response is never handed on.
C12_PendingResponseReplaced ==
    [][/\ \A p \in DOMAIN active_peers' :
             \/ active_peers'[p].pending_response = None
             \/ active_peers'[p].pending_response.rid \in DOMAIN requests'
       /\ \A x \in eth_responses' \ eth_responses :
             PendingRequest(x[1]) = x[2]
       /\ \A p \in DOMAIN active_peers : \A r \in DOMAIN requests :
             (/\ PendingRequest(p) # 0
              /\ DispatchedTo(r, p)
              /\ <<p, PendingRequest(p)>> \notin eth_responses') =>
                /\ PendingRequest(p)' # PendingRequest(p)
                /\ p \in DOMAIN active_peers' => PendingRequest(p)' = r]_vars

\* C12 witness: peer p's session had answered request 1 when request 2 was
\* dispatched to p; request 2 is p's pending response and the answer to
\* request 1 was not handed on.
C12_Witness ==
    \E p \in DOMAIN active_peers :
        /\ Len(requests) = 2
        /\ requests[1].to = p
        /\ requests[1].oneshot = "ok"
        /\ requests[2].to = p
        /\ PendingRequest(p) = 2
        /\ <<p, 1>> \notin eth_responses

\* ---------------------------------------------------------------- C13
\* A discovery event or a lifecycle event that makes an action
LifecycleEmits(a) ==
    a.type \in {"Connect", "Disconnect", "DisconnectBannedIncoming", "PeerAdded",
                "PeerRemoved"}

EventReady ==
    \/ discovery.ready # <<>>
    \/ \E i \in DOMAIN peer_actions : LifecycleEmits(peer_actions[i])

EventActionTypes ==
    {"DiscoveredNode", "DiscoveredEnrForkId", "Connect", "Disconnect",
     "PeerAdded", "PeerRemoved"}

EventEmitted ==
    poll_result.poll = "Ready" /\ poll_result.item.type \in EventActionTypes

\* C13: a discovery or lifecycle event that is ready is eventually turned into
\* its action and returned by poll, also when the fetcher yields a request
\* every time it is polled.
C13_EventsNotStarved == EventReady ~> EventEmitted

\* ---------------------------------------------------------------- C14
\* The action an event is to be answered with
ActionType(t) ==
    CASE t = "Discovered" -> "DiscoveredNode"
      [] t = "EnrForkId" -> "DiscoveredEnrForkId"
      [] t = "DisconnectBannedIncoming" -> "Disconnect"
      [] OTHER -> t

ActionsOf(events) ==
    [i \in 1..Len(events) |->
        [type |-> ActionType(events[i].type), peer_id |-> events[i].peer_id]]

\* What is buffered, oldest first, when an invocation of poll comes to return:
\* the actions buffered before, or after a pass those of the discovery events
\* followed by those of the lifecycle events
DueActions ==
    IF queued_messages # <<>> THEN queued_messages
    ELSE ActionsOf(discovery.ready)
            \o ActionsOf(SelectSeq(peer_actions, LifecycleEmits))

IsPrefix(s, t) == Len(s) <= Len(t) /\ SubSeq(t, 1, Len(s)) = s

\* C14: poll returns the oldest of the due actions and keeps the others in
\* their order (after a pass: discovery, then lifecycle; actions buffered
\* before are returned before any pass); no other step removes or reorders a
\* buffered action.  So every queued action is returned
\* exactly once, in the order it was queued.
C14_ReturnedOnceInOrder ==
    [][IF last_call' = Polled
       THEN IF DueActions = <<>>
            THEN poll_result'.poll = "Pending" /\ queued_messages' = <<>>
            ELSE /\ poll_result' = [poll |-> "Ready", item |-> Head(DueActions)]
                 /\ queued_messages' = Tail(DueActions)
       ELSE IsPrefix(queued_messages, queued_messages')]_vars

\* a pass has turned a discovery event and a lifecycle event into actions and
\* returned the first
C14_Witness ==
    /\ poll_result.poll = "Ready"
    /\ poll_result.item.type = "DiscoveredEnrForkId"
    /\ Len(queued_messages) = 1
    /\ queued_messages[1].type = "PeerRemoved"

\* ---------------------------------------------------------------- C15
\* C15: an invocation of poll that finds an action buffered returns the oldest
\* one and removes it; the rest of the buffer, the peer table with its pending
\* responses, the fetcher, the sessions' channels, and the events that
\* discovery and the peers manager have ready are as they were.
C15_BufferedActionReturnedAtOnce ==
    [][(last_call' = Polled /\ queued_messages # <<>>) =>
          /\ poll_result' = [poll |-> "Ready", item |-> Head(queued_messages)]
          /\ queued_messages' = Tail(queued_messages)
          /\ UNCHANGED <<active_peers, fetch_peers, fetchSide>>]_vars

\* poll has returned an action while discovery had an event ready and a peer's
\* pending response was answered: neither was looked at
C15_Witness ==
    /\ poll_result.poll = "Ready"
    /\ discovery.ready # <<>>
    /\ \E p \in DOMAIN active_peers :
          /\ PendingRequest(p) # 0
          /\ OneshotOf(PendingRequest(p)) = "ok"

\* ---------------------------------------------------------------- C16
\* C16: when poll returns Pending, the action buffer is empty, discovery and
\* the peers manager have nothing ready, and every pending response stored
\* for an active peer has been polled since it was dispatched, so that its
\* completion wakes the owning task.
C16_SuspendsWithEverythingPolled ==
    [][(last_call' = Polled /\ poll_result'.poll = "Pending") =>
          /\ queued_messages' = <<>>
          /\ discovery'.ready = <<>>
          /\ peer_actions' = <<>>
          /\ \A p \in DOMAIN active_peers' :
                \/ active_peers'[p].pending_response = None
                \/ active_peers'[p].pending_response.polled]_vars

\* ---------------------------------------------------------------- C17
\* The response channel of p's pending response is closed: the session
\* dropped the request, or the request never reached it
ClosedPending(p) ==
    /\ PendingRequest(p) # 0
    /\ OneshotOf(PendingRequest(p)) \in {"dropped", "unsent"}

\* C17: a pass of poll over a peer whose pending response resolves to a
\* channel-closed error removes the peer from the active table and from the
\* fetcher, does not hand the response to on_eth_response and applies no
\* reputation change; on_session_closed for a peer that is not in the table
\* leaves the table as it is.
C17_ChannelClosedIsSessionClosed ==
    [][/\ \A p \in FetchPeerIds :
            (last_call' = Polled /\ queued_messages = <<>> /\ ClosedPending(p)) =>
                /\ p \notin DOMAIN active_peers'
                /\ p \notin DOMAIN fetch_peers'
                /\ <<p, PendingRequest(p)>> \notin eth_responses'
                /\ p \notin penalized' \ penalized
       /\ \A p \in FetchPeerIds :
            (p \notin DOMAIN active_peers /\ on_session_closed(p)) =>
                active_peers' = active_peers]_vars

\* the one request was dispatched to a peer whose session had ended; the same
\* pass found the channel closed and dropped the peer: the caller observes
\* ConnectionDropped, nobody was penalized
C17_Witness ==
    /\ Len(requests) = 1
    /\ requests[1].oneshot = "unsent"
    /\ requests[1].result = "ConnectionDropped"
    /\ requests[1].to \notin DOMAIN active_peers
    /\ requests[1].to \notin DOMAIN fetch_peers
    /\ penalized = {}
    /\ eth_responses = {}
    /\ poll_result.poll = "Pending"

\* ---------------------------------------------------------------- C18
\* The request channel of p's session is full or closed
ChannelBlocked(p) ==
    /\ p \in DOMAIN session_rx
    /\ \/ ~session_rx[p].open
       \/ Len(session_rx[p].queue) >= SessionChannelCap

\* C18: a request dispatched to a peer whose request channel is full or
\* closed does not enter the channel, and the invocation of poll goes on and
\* returns without a panic; its response channel is closed from the start,
\* and a pass of poll over a peer with such a pending response removes the
\* peer from the active table and from the fetcher.  A peer that is still in
\* the table after the dispatch has the request as its pending response, for
\* the next pass to find.
C18_FailedSendReclaimsPeer ==
    [][/\ \A p \in FetchPeerIds : \A r \in DOMAIN requests :
            (DispatchedTo(r, p) /\ ChannelBlocked(p)) =>
                /\ r \notin Range(session_rx'[p].queue)
                /\ requests'[r].oneshot = "unsent"
                /\ ~panicked'
                /\ poll_result'.poll \in {"Pending", "Ready"}
                /\ p \in DOMAIN active_peers' =>
                      active_peers'[p].pending_response = [rid |-> r, polled |-> FALSE]
       /\ \A p \in FetchPeerIds :
            (/\ last_call' = Polled
             /\ queued_messages = <<>>
             /\ PendingRequest(p) # 0
             /\ OneshotOf(PendingRequest(p)) = "unsent") =>
                /\ p \notin DOMAIN active_peers'
                /\ p \notin DOMAIN fetch_peers']_vars

\* request 1 waits in the channel of a live session; request 2 was dispatched
\* to the same peer, found the channel full and was dropped, and the peer was
\* removed from the table and from the fetcher
C18_Witness ==
    /\ Len(requests) = 2
    /\ requests[1].oneshot = "waiting"
    /\ requests[2].oneshot = "unsent"
    /\ requests[1].to = requests[2].to
    /\ requests[1].to \in DOMAIN session_rx
    /\ session_rx[requests[1].to].open
    /\ session_rx[requests[1].to].queue = <<1>>
    /\ requests[1].to \notin DOMAIN active_peers
    /\ requests[1].to \notin DOMAIN fetch_peers

\* ---------------------------------------------------------------- C19
\* The events of a pass that call for an action, counted
ActionsCalledFor ==
    Len(discovery.ready)
        + Cardinality({i \in DOMAIN peer_actions : LifecycleEmits(peer_actions[i])})

\* The peers the lifecycle events of a pass ban from discovery
BansCalledFor ==
    {peer_actions[i].peer_id : i \in
        {j \in DOMAIN peer_actions :
            peer_actions[j].type \in {"DiscoveryBanPeerId", "DiscoveryBanIp"}}}

\* C19: a pass of poll buffers exactly one action for each discovery event
\* and each Connect, Disconnect, DisconnectBannedIncoming, PeerAdded and
\* PeerRemoved event it takes, and none for anything else it does (bans, the
\* other lifecycle events, dispatching requests, handling responses); the
\* bans are applied to discovery in the pass; on_session_activated,
\* on_session_closed, update_peer_block, on_new_block and on_new_block_hashes
\* buffer nothing.
C19_OneActionPerEvent ==
    [][/\ last_call' # Polled => queued_messages' = queued_messages
       /\ (last_call' = Polled /\ queued_messages = <<>>) =>
            /\ Len(queued_messages') + (IF poll_result'.poll = "Ready" THEN 1 ELSE 0)
                  = ActionsCalledFor
            /\ discovery'.banned = discovery.banned \cup BansCalledFor
            /\ discovery'.ready = <<>>
            /\ peer_actions' = <<>>]_vars

\* a pass took a ban and a disconnect of a banned incoming peer: the ban is
\* applied, the one action of the pass is returned, nothing stays buffered;
\* a response had been handled before
C19_Witness ==
    /\ poll_result.poll = "Ready"
    /\ poll_result.item.type = "Disconnect"
    /\ discovery.banned = {1}
    /\ queued_messages = <<>>
    /\ eth_responses # {}

\* ---------------------------------------------------------------- C20
\* The coordinator's own state, the fetcher's aside
Coordinator(st) ==
    [ap |-> st.ap, qm |-> st.qm, rx |-> st.rx, pen |-> st.pen, disc |-> st.disc,
     pa |-> st.pa]

\* on_eth_response for peer p and result res in the present state: no peer is
\* removed and no action buffered; without an outcome from the fetcher nothing
\* changes in the coordinator; a bad response adds a reputation change and
\* nothing else; a follow-up becomes the pending response of its peer
ResponseHandledInPlace(p, res) ==
    LET out == on_eth_response(State, p, res)
        outcome == FetcherOutcome(State, p, res)
    IN  /\ DOMAIN out.ap = DOMAIN active_peers
        /\ out.qm = queued_messages
        /\ outcome = None => Coordinator(out) = Coordinator(State)
        /\ (outcome # None /\ outcome.type = "BadResponse") =>
              Coordinator(out) = [Coordinator(State) EXCEPT !.pen = @ \cup {p}]
        /\ (outcome # None /\ outcome.type = "Request") =>
              /\ outcome.peer = p
              /\ IF p \in DOMAIN active_peers
                 THEN out.ap[p].pending_response =
                          [rid |-> outcome.request, polled |-> FALSE]
                 ELSE Coordinator(out) = Coordinator(State)

\* C20: in every state, handling a response of any peer (registered with the
\* fetcher or not) is as ResponseHandledInPlace says, and handle_block_request
\* for a peer that is not in the table changes nothing; and in every
\* invocation of poll a peer whose response is handed to on_eth_response is in
\* the table afterwards, penalized if the response was bad, and poll returns.
C20_ResponsesNeverRemovePeers ==
    [][/\ \A p \in FetchPeerIds : \A res \in {"ok", "err"} :
            ResponseHandledInPlace(p, res)
       /\ \A p \in FetchPeerIds \ DOMAIN active_peers : \A r \in DOMAIN requests :
            handle_block_request(State, p, r) = State
       /\ \A x \in eth_responses' \ eth_responses :
            /\ x[1] \in DOMAIN active_peers'
            /\ OneshotOf(x[2]) = "err" => x[1] \in penalized'
            /\ OneshotOf(x[2]) = "ok" => x[1] \notin penalized' \ penalized
            /\ poll_result'.poll \in {"Pending", "Ready"}
            /\ ~panicked']_vars

\* a bad response was handled and its peer is still in the table, penalized;
\* another request was named for a peer that is not in the table and went
\* nowhere
C20_Witness ==
    /\ Len(requests) = 2
    /\ \E r \in DOMAIN requests :
          /\ requests[r].result = "err"
          /\ requests[r].to \in DOMAIN active_peers
          /\ requests[r].to \in penalized
          /\ <<requests[r].to, r>> \in eth_responses
    /\ \E r \in DOMAIN requests :
          /\ requests[r].to = 0
          /\ r \notin Range(fetch_queued)

\* ---------------------------------------------------------------- C21
\* The requests that have completed and whose result was not yielded yet
Completed == {inner.ready[i].id : i \in 1..Len(inner.ready)}

\* C21: a result yielded by poll_next is the result its request completed
\* with; the request was in the queue, pushed and neither cleared nor yielded
\* before, and leaves it, len going down by one; every other request,
\* completed or not, stays with its own result, also when the yielded result
\* is an error; a request has at most one result; a request that joins the
\* queue is a new one; and a request that has completed is yielded or cleared
\* when the stream is polled.
C21_OneResultPerRequest ==
    /\ [][/\ (poll_next /\ stream_item'.item # None) =>
                /\ stream_item'.item.some \in Range(inner.ready)
                /\ stream_item'.item.some.id \in live
                /\ stream_item'.item.some.id \notin live'
                /\ stream_item'.item.some.id \notin Completed'
                /\ len' = len - 1
                /\ Range(inner'.futures) =
                      Range(inner.futures) \ {stream_item'.item.some.id}
                /\ Range(inner'.ready) =
                      Range(inner.ready) \ {stream_item'.item.some}
           /\ \A id \in 1..MaxPushes : \A res \in {"ok", "err"} :
                request_completes(id, res) =>
                    /\ inner'.futures = inner.futures
                    /\ Range(inner'.ready) =
                          Range(inner.ready) \cup {[id |-> id, result |-> res]}
           /\ Cardinality(Completed') = Len(inner'.ready)
           /\ Completed' \subseteq live'
           /\ live' \ live \subseteq (1..next_request') \ (1..next_request)]_vars
    /\ \A id \in 1..MaxPushes : (id \in Completed) ~> (id \notin live)

\* the result of a failed request was yielded while another request is in
\* flight and a third has completed and waits to be yielded
C21_Witness ==
    /\ stream_item # None
    /\ stream_item.item # None
    /\ stream_item.item.some.result = "err"
    /\ Completed # {}
    /\ Range(inner.futures) \ Completed # {}

\* ---------------------------------------------------------------- C22
\* The peers a step adds to the table, and those it takes out
Joined == DOMAIN active_peers' \ DOMAIN active_peers

Left == DOMAIN active_peers \ DOMAIN active_peers'

\* In a pass of poll the pending response of p resolves to a channel-closed
\* error: it did before the pass, or the pass dispatched a request to p that
\* did not reach the session
FoundClosed(p) ==
    \/ ClosedPending(p)
    \/ \E r \in DOMAIN requests :
          DispatchedTo(r, p) /\ requests'[r].oneshot = "unsent"

\* C22: a step that adds a peer to the active table is on_session_activated
\* for that peer; a step that takes peers out is on_session_closed for that
\* peer, or a pass of poll that found the response channel of each of them
\* closed.  Every other step (an announcement, a dispatch, the handling of a
\* response, a discovery event, a lifecycle event, Disconnect and
\* DisconnectBannedIncoming among them) leaves the set of active peers as it
\* is.
C22_MembershipBySessionsOnly ==
    [][/\ Joined # {} =>
            \E p \in EventPeerIds :
                Joined = {p} /\ Left = {} /\ on_session_activated(p, ZeroHash)
       /\ Left # {} =>
            \/ \E p \in EventPeerIds :
                  Left = {p} /\ Joined = {} /\ on_session_closed(p)
            \/ /\ last_call' = Polled
               /\ queued_messages = <<>>
               /\ Joined = {}
               /\ \A p \in Left : FoundClosed(p)]_vars

\* a pass has taken a disconnect event for a peer: the Disconnect action is
\* returned, the fetcher has marked the peer, and the peer is in the table
C22_Witness ==
    /\ poll_result.poll = "Ready"
    /\ poll_result.item.type = "Disconnect"
    /\ poll_result.item.peer_id \in DOMAIN active_peers
    /\ poll_result.item.peer_id \in DOMAIN fetch_peers
    /\ fetch_peers[poll_result.item.peer_id].closing

\* ---------------------------------------------------------------- C23
\* The active peers whose cache lacks hash h
Unknowing(h) ==
    {p \in DOMAIN active_peers : ~LruContains(active_peers[p].blocks, h)}

Min(a, b) == IF a <= b THEN a ELSE b

\* C23: one call of announce_new_block for hash h on a table of N peers, U of
\* which lack h, queues an action for exactly min(floor(sqrt(N))+1, U) peers;
\* each of them has h in its cache afterwards; the cache and the best hash of
\* every other peer are as before.
C23_ExactFanOut ==
    [][\A h \in Hashes :
        last_call' = [op |-> "block", arg |-> h] =>
            LET new == NewMessages
                told == {new[i].peer_id : i \in 1..Len(new)}
                n == Cardinality(DOMAIN active_peers)
            IN  /\ \E r \in 0..n :
                      /\ r * r <= n
                      /\ (r + 1) * (r + 1) > n
                      /\ Cardinality(told) = Min(r + 1, Cardinality(Unknowing(h)))
                /\ Len(new) = Cardinality(told)
                /\ told \subseteq Unknowing(h)
                /\ DOMAIN active_peers' = DOMAIN active_peers
                /\ \A p \in told : LruContains(active_peers'[p].blocks, h)
                /\ \A p \in DOMAIN active_peers \ told :
                      /\ active_peers'[p].blocks = active_peers[p].blocks
                      /\ active_peers'[p].best_hash = active_peers[p].best_hash]_vars

\* announce_new_block has run last, on a table of three peers: every peer
\* knows the hash, and actions are queued for two of them only, the third
\* having known the hash without being told
C23_Witness ==
    /\ last_call.op = "block"
    /\ Cardinality(DOMAIN active_peers) = 3
    /\ Len(queued_messages) = 2
    /\ Cardinality(QueuedFor("NewBlock", last_call.arg)) = 2
    /\ \A p \in DOMAIN active_peers : LruContains(active_peers[p].blocks, last_call.arg)
    /\ \A i \in 1..Len(queued_messages) :
          queued_messages[i].peer_id \in DOMAIN active_peers

\* ---------------------------------------------------------------- C24
\* The requests the fetcher issued in a step
Issued == Range(fetch_queued) \ Range(fetch_queued')

\* C24: after every step the peers registered with the fetcher are the peers
\* of the active table, and every request the fetcher issues goes to a peer of
\* the table.
C24_FetcherFollowsTable ==
    [][/\ DOMAIN fetch_peers' = DOMAIN active_peers'
       /\ \A r \in Issued :
            /\ requests'[r].to # 0
            /\ requests'[r].to \in DOMAIN active_peers]_vars

\* a pass of poll has dropped the peer of a lost request from the table and
\* from the fetcher, while the other peer serves a request
C24_Witness ==
    /\ Cardinality(DOMAIN active_peers) = 1
    /\ DOMAIN fetch_peers = DOMAIN active_peers
    /\ poll_result.poll = "Pending"
    /\ \E r \in DOMAIN requests :
          /\ requests[r].result = "ConnectionDropped"
          /\ requests[r].to \notin DOMAIN active_peers
    /\ \E r \in DOMAIN requests :
          /\ requests[r].oneshot = "waiting"
          /\ requests[r].to \in DOMAIN active_peers

\* ---------------------------------------------------------------- C25
\* What is buffered when the pass below the loop over the fetcher is through:
\* the actions of the discovery events, buffered before that loop, and those
\* of the lifecycle events
BufferedByPass ==
    queued_messages \o ActionsOf(SelectSeq(peer_actions, LifecycleEmits))

\* C25: an invocation of poll that is inside its loop over the fetcher
\* returns, Pending or Ready, once the fetcher has no more request ready; a
\* pass that buffered no action returns Pending at once, and one that did
\* returns the oldest action it buffered.
C25_PollReturns ==
    /\ (pc = "fetcher") ~> (pc = "out" /\ poll_result.poll \in {"Pending", "Ready"})
    /\ [][(pc = "fetcher" /\ pc' = "out") =>
             IF BufferedByPass = <<>>
             THEN poll_result'.poll = "Pending" /\ queued_messages' = <<>>
             ELSE /\ poll_result' = [poll |-> "Ready", item |-> Head(BufferedByPass)]
                  /\ queued_messages' = Tail(BufferedByPass)]_vars

\* poll has returned Pending from a pass in which the fetcher had two
\* requests ready, one after the other
C25_Witness ==
    /\ pc = "out"
    /\ poll_result.poll = "Pending"
    /\ Len(requests) = 2
    /\ requests[1].to # 0
    /\ requests[2].to # 0

====
